---- MODULE Spec2Model ----
(***************************************************************************)
(* Detection cache and scan-classify-relocate pipeline of the image review *)
(* scripts detect_animals.py and detect_faces_simple.py.                   *)
(*                                                                         *)
(* Spec        repeated runs of main(): DetectionCache over one cache      *)
(*             directory, scan_directory, the detector adapter, with the   *)
(*             environment modifying files and cache entries in between.   *)
(* SpecOne     the same runs over a gallery of one image, more of them.    *)
(* SpecForeign the runs of Spec over a cache directory in which an entry   *)
(*             can turn up under the key of another path.                  *)
(* SpecDetect  one call of detect on one image, over the lists of boxes    *)
(*             the model can return.                                       *)
(* SpecReloc   calls of move_to_review on one list of Results.             *)
(***************************************************************************)
EXTENDS Integers, Sequences, FiniteSets, TLC

VARIABLES
    mode,              \* which script and model: "animals" (detect_animals.py),
                       \*   "person", "face" (detect_faces_simple.py)
    fs,                \* the gallery: file index -> Missing or [exists, mtime, size]
    cache,             \* the cache directory: identity key -> entry
    stats,             \* DetectionCache.stats of the current instance
    pc,                \* position of main(): "start", "prefilter", "process", "done",
                       \*   "crashed" (an exception left main); of move_to_review:
                       \*   "review", "relocate", "returned", "aborted"
    pos,               \* 1-based loop index into the list being iterated
    runsLeft,          \* runs of main() still allowed
    use_cache,         \* detector.use_cache of the current run
    confidence_threshold, \* detector.confidence_threshold of the current run
    image_files,       \* scan_directory: the enumerated files
    files_to_process,  \* scan_directory: files whose lookup returned None
    results,           \* scan_directory: the list of Results
    envLeft,           \* environment steps still allowed
    invocations,       \* history: model calls per file since its mtime or size last
                       \*   changed and its entry was last cleared or damaged
    stored,            \* history: Result written by the last successful set for the
                       \*   file's present identity, entry untouched since
    setStat,           \* history: (mtime, size) at the last successful set per file
    lookup,            \* history: outcome of the file's lookup in the current scan
    touched,           \* history: the file was rewritten and not looked up since
    setOutcome,        \* history: how the cache.set of the last detect ended:
                       \*   "none" (not called), "ok", "failed"
    clear_cache,       \* args.clear_cache of the run
    raw,               \* SpecDetect: the boxes the model returns for the image
    dry_run,           \* move_to_review: argument
    use_symlinks,      \* move_to_review: argument
    review,            \* the review directory: [dirs, files]
    movements,         \* move_to_review: the bucket lists and the errors list
    summary,           \* move_to_review: the dict returned
    dryCounts,         \* history: the counts of the last dry run over these Results
    directories,       \* main: the directories to scan
    root,              \* main: 1-based index of the directory being scanned
    all_results,       \* main: the Results of the directories scanned so far
    depth              \* the gallery: file index -> number of directories
                       \*   between the scanned directory and the file

scanVars == <<cache, stats, use_cache, confidence_threshold, image_files,
              files_to_process, envLeft, invocations, stored, setStat, lookup,
              touched, setOutcome, clear_cache>>

relocVars == <<dry_run, use_symlinks, review, movements, summary, dryCounts>>

mainVars == <<directories, root, all_results, depth>>

vars == <<mode, fs, pc, pos, runsLeft, results, raw, scanVars, relocVars, mainVars>>

---------------------------------------------------------------------------
(* Bounds *)

NumFiles == 2
MaxBoxes == 2
MaxStamp == 2
MaxRuns == 2
MaxEnv == 1
LongRuns == 3
LongEnv == 2
MaxRoots == 2
GlobFiles == 5
MaxDepth == 1
MaxOps == 3

---------------------------------------------------------------------------
(* Values *)

Paths == 1 .. NumFiles
Stamps == 1 .. MaxStamp

\* None of the Python code, and the values that are not Results.
None == [tag |-> "None"]
NoEntry == [tag |-> "absent"]
Corrupt == [tag |-> "corrupt"]
Raised(e) == [tag |-> "raised", exc |-> e]

IsRaised(v) == "tag" \in DOMAIN v /\ v.tag = "raised"
IsResult(v) == "path" \in DOMAIN v

\* dict.get(key, default)
DictGet(d, k, default) == IF k \in DOMAIN d THEN d[k] ELSE default

Last(s) == s[Len(s)]

RECURSIVE SeqToSet(_)
SeqToSet(s) == IF s = <<>> THEN {} ELSE {Head(s)} \cup SeqToSet(Tail(s))

\* All orderings of a finite set, as sequences.
RECURSIVE Orderings(_)
Orderings(S) ==
    IF S = {} THEN {<<>>}
    ELSE UNION {{<<x>> \o t : t \in Orderings(S \ {x})} : x \in S}

---------------------------------------------------------------------------
(* Files of the gallery *)

\* File p lies directly in the gallery directory (a gallery without
\* subdirectories, so that main scans the gallery itself) and carries the
\* extension Ext(p).
Ext(p) ==
    CASE p % 4 = 1 -> ".jpg"
      [] p % 4 = 2 -> ".PNG"
      [] p % 4 = 3 -> ".txt"
      [] OTHER -> ".Jpg"

\* str(file_path): the parts of the path.
PathStr(p) == <<"gallery", <<p, Ext(p)>>>>

Upper(ext) ==
    CASE ext = ".jpg" -> ".JPG"
      [] ext = ".jpeg" -> ".JPEG"
      [] ext = ".png" -> ".PNG"
      [] OTHER -> ext

extensions == <<".jpg", ".jpeg", ".png">>

\* The review directory before the first real run: nothing there.
EmptyReview == [dirs |-> {}, files |-> {}]

Missing == [exists |-> FALSE]
File(m, s) == [exists |-> TRUE, mtime |-> m, size |-> s]

Exists(p) == fs[p].exists

\* The files in the directories d levels below the scanned one, and deeper.
Below(d) == {p \in DOMAIN fs : Exists(p) /\ depth[p] >= d}

\* directory.glob(f"**/*{pattern}"): the existing files, in the scanned
\* directory and in every directory below it, whose name ends in the pattern,
\* compared case-sensitively, in an order the file system chooses.
Glob(pattern) == Orderings({p \in Below(0) : Ext(p) = pattern})

\* The lists scan_directory can collect: for each extension the matches of the
\* extension, then the matches of its upper-case spelling.
RECURSIVE CollectImageFiles(_)
CollectImageFiles(exts) ==
    IF exts = <<>> THEN {<<>>}
    ELSE {a \o b \o rest : a \in Glob(Head(exts)), b \in Glob(Upper(Head(exts))),
                           rest \in CollectImageFiles(Tail(exts))}

---------------------------------------------------------------------------
(* Identity keying *)

\* `key = f"{file_path}_{stat.st_mtime}_{stat.st_size}"`: the path as the
\* caller spells it, the mtime and the size.
HashInput(file_path, mtime, size) == <<file_path, mtime, size>>

\* Mutant of FileHash: the size is left out of the key.
FileHashWithoutSize(p) == <<PathStr(p), fs[p].mtime, 1>>

\* file_path.stat(): raises when the file is gone.
Stat(p) == <<fs[p].mtime, fs[p].size>>

\* _get_file_hash: md5 of "<path>_<mtime>_<size>". The string determines its
\* three parts (mtime and size hold no underscore) and md5 is taken to be
\* collision free, so the digest is modelled by the triple.
FileHash(p) == HashInput(PathStr(p), fs[p].mtime, fs[p].size)

Keys == {<<PathStr(p), m, s>> : p \in Paths, m \in Stamps, s \in Stamps}

---------------------------------------------------------------------------
(* Detection cache (class DetectionCache) *)

ZeroStats == [hits |-> 0, misses |-> 0, invalid |-> 0]

\* Mutant of GetTry: the stored path is compared with something that never
\* equals it (the Path object instead of its string).
GetTryPathNeverEqual(p) ==
    IF ~Exists(p) THEN [ret |-> Raised("stat"), stats |-> stats]
    ELSE LET cached == cache[FileHash(p)] IN
         IF cached # NoEntry
         THEN IF cached = Corrupt
              THEN [ret |-> Raised("unpickle"), stats |-> stats]
              ELSE [ret |-> None,
                    stats |-> [stats EXCEPT !.invalid = @ + 1, !.misses = @ + 1]]
         ELSE [ret |-> None, stats |-> [stats EXCEPT !.misses = @ + 1]]

\* The try block of get: the value returned (or the exception raised) and the
\* counters as the block leaves them.
GetTry(p) ==
    IF ~Exists(p) THEN [ret |-> Raised("stat"), stats |-> stats]
    ELSE LET cached == cache[FileHash(p)] IN
         IF cached # NoEntry
         THEN IF cached = Corrupt
              THEN [ret |-> Raised("unpickle"), stats |-> stats]
              ELSE IF "path" \in DOMAIN cached /\ cached.path = PathStr(p)
                   THEN [ret |-> cached, stats |-> [stats EXCEPT !.hits = @ + 1]]
                   ELSE [ret |-> None,
                         stats |-> [stats EXCEPT !.invalid = @ + 1, !.misses = @ + 1]]
         ELSE [ret |-> None, stats |-> [stats EXCEPT !.misses = @ + 1]]

\* Mutant of GetExcept: a failed read is counted as a miss.
GetExceptCountsMiss(r) == [ret |-> None, stats |-> [r.stats EXCEPT !.misses = @ + 1]]

\* The except clause of get.
GetExcept(r) == [ret |-> None, stats |-> [r.stats EXCEPT !.invalid = @ + 1]]

\* DetectionCache.get
CacheGet(p) ==
    LET r == GetTry(p) IN IF IsRaised(r.ret) THEN GetExcept(r) ELSE r

\* How a write of an entry can end: written, open() refused, or pickle.dump
\* failing after open() has truncated the file.
WriteOutcomes == {"ok", "noopen", "partial"}

\* The try block of set.
SetTry(p, result, w) ==
    IF ~Exists(p) THEN [ret |-> Raised("stat"), cache |-> cache]
    ELSE IF w = "noopen" THEN [ret |-> Raised("open"), cache |-> cache]
    ELSE IF w = "partial"
         THEN [ret |-> Raised("dump"), cache |-> [cache EXCEPT ![FileHash(p)] = Corrupt]]
         ELSE [ret |-> None, cache |-> [cache EXCEPT ![FileHash(p)] = result]]

\* Mutant of SetExcept: the exception is raised again.
SetExceptReraises(r) == r

\* The except clause of set.
SetExcept(r) == [r EXCEPT !.ret = None]

\* DetectionCache.set
CacheSet(p, result, w) ==
    LET r == SetTry(p, result, w) IN IF IsRaised(r.ret) THEN SetExcept(r) ELSE r

\* DetectionCache.clear
CacheClear == [k \in Keys |-> NoEntry]

---------------------------------------------------------------------------
(* Detector adapter (AnimalDetector.detect, SimpleFaceDetector.detect) *)

ANIMAL_CLASSES(c) ==
    CASE c = 14 -> "bird" [] c = 15 -> "cat" [] c = 16 -> "dog"
      [] c = 17 -> "horse" [] c = 18 -> "sheep" [] c = 19 -> "cow"
      [] c = 20 -> "elephant" [] c = 21 -> "bear" [] c = 22 -> "zebra"
      [] c = 23 -> "giraffe" [] c = 24 -> "backpack" [] c = 25 -> "umbrella"
      [] c = 26 -> "handbag" [] c = 27 -> "tie" [] c = 28 -> "suitcase"
      [] OTHER -> <<"animal_class_", c>>

LIVING_SUBJECT_CLASSES == {14, 15, 16, 17, 18, 19, 20, 21, 22, 23}

\* A raw box of the model: confidence in tenths, class identifier.
Box(conf, cls) == [confidence |-> conf, class |-> cls]

\* Mutant of KeepAnimal: a confidence equal to the threshold is dropped.
KeepAnimalAbove(box, threshold) ==
    box.class \in LIVING_SUBJECT_CLASSES /\ box.confidence > threshold

\* detect_animals.py: the two tests a box passes to be appended.
KeepAnimal(box, threshold) ==
    box.class \in LIVING_SUBJECT_CLASSES /\ box.confidence >= threshold

\* detect_faces_simple.py: the two tests a box passes to be appended.
KeepFace(box, threshold, person_mode) ==
    ~(person_mode /\ box.class # 0) /\ box.confidence >= threshold

\* The loop over result.boxes.
RECURSIVE Detections(_, _, _)
Detections(boxes, md, threshold) ==
    IF boxes = <<>> THEN <<>>
    ELSE LET box == Head(boxes)
             rest == Detections(Tail(boxes), md, threshold)
         IN IF md = "animals"
            THEN IF KeepAnimal(box, threshold)
                 THEN <<[confidence |-> box.confidence, class |-> box.class,
                         class_name |-> ANIMAL_CLASSES(box.class)]>> \o rest
                 ELSE rest
            ELSE IF KeepFace(box, threshold, md = "person")
                 THEN <<[confidence |-> box.confidence, class |-> box.class]>> \o rest
                 ELSE rest

\* img.size of the image at p.
ImageSize(p) == <<p, p>>

\* Mutant of BuildResult: has_detections tests >= 0 instead of > 0.
BuildResultFlagAlwaysSet(p, detections, md) ==
    IF md = "animals"
    THEN [path |-> PathStr(p), width |-> p, height |-> p,
          detections |-> detections, count |-> Len(detections),
          has_detections |-> Len(detections) >= 0,
          animal_types |-> {detections[i].class_name : i \in 1 .. Len(detections)}]
    ELSE [path |-> PathStr(p), width |-> p, height |-> p,
          detections |-> detections, count |-> Len(detections),
          has_detections |-> Len(detections) >= 0]

\* The Result dict built from the kept detections. animal_types is
\* list(set(...)): distinct names in no particular order, kept as a set.
BuildResult(p, detections, md) ==
    IF md = "animals"
    THEN [path |-> PathStr(p), width |-> ImageSize(p)[1], height |-> ImageSize(p)[2],
          detections |-> detections, count |-> Len(detections),
          has_detections |-> Len(detections) > 0,
          animal_types |-> {detections[i].class_name : i \in 1 .. Len(detections)}]
    ELSE [path |-> PathStr(p), width |-> ImageSize(p)[1], height |-> ImageSize(p)[2],
          detections |-> detections, count |-> Len(detections),
          has_detections |-> Len(detections) > 0]

\* The dict returned by the except clause of detect.
ErrorResult(p, e, md) ==
    IF md = "animals"
    THEN [path |-> PathStr(p), error |-> e, has_detections |-> FALSE, count |-> 0,
          animal_types |-> {}]
    ELSE [path |-> PathStr(p), error |-> e, has_detections |-> FALSE, count |-> 0]

\* What the model call can do: raise, or return boxes.
ModelRaises == [raises |-> TRUE]
ModelReturns(boxes) == [raises |-> FALSE, boxes |-> boxes]

\* The try block of detect: Image.open, the model call, the filter loop, the
\* Result and cache.set. `opens` tells whether the file, if there, decodes as
\* an image; `invoked` tells whether the model was called.
DetectTry(p, opens, out, w) ==
    IF ~Exists(p) \/ ~opens
    THEN [ret |-> Raised("open"), cache |-> cache, invoked |-> FALSE]
    ELSE IF out = ModelRaises
    THEN [ret |-> Raised("model"), cache |-> cache, invoked |-> TRUE]
    ELSE LET result == BuildResult(p, Detections(out.boxes, mode, confidence_threshold),
                                   mode)
             s == IF use_cache THEN CacheSet(p, result, w)
                  ELSE [ret |-> None, cache |-> cache]
         IN [ret |-> IF IsRaised(s.ret) THEN s.ret ELSE result,
             cache |-> s.cache, invoked |-> TRUE]

\* Mutant of DetectExcept: the Result with the error is cached too.
DetectExceptCaches(p, t) ==
    [ret |-> ErrorResult(p, t.ret.exc, mode),
     cache |-> IF Exists(p) /\ use_cache
               THEN [cache EXCEPT ![FileHash(p)] = ErrorResult(p, t.ret.exc, mode)]
               ELSE cache,
     invoked |-> t.invoked]

\* Mutant of DetectExcept: the exception is raised again.
DetectExceptReraises(p, t) == t

\* The except clause of detect.
DetectExcept(p, t) == [t EXCEPT !.ret = ErrorResult(p, t.ret.exc, mode)]

\* detect(image_path, check_cache): the value returned (or the exception that
\* leaves detect), the cache directory and the counters afterwards.
Detect(p, check_cache, opens, out, w) ==
    LET g == IF use_cache /\ check_cache THEN CacheGet(p)
             ELSE [ret |-> None, stats |-> stats]
    IN IF g.ret # None
       THEN [ret |-> g.ret, cache |-> cache, stats |-> g.stats, invoked |-> FALSE,
             looked |-> IF IsRaised(g.ret) THEN "none" ELSE "hit"]
       ELSE LET t == DetectTry(p, opens, out, w)
                d == IF IsRaised(t.ret) THEN DetectExcept(p, t) ELSE t
            IN [ret |-> d.ret, cache |-> d.cache, stats |-> g.stats,
                invoked |-> d.invoked,
                looked |-> IF use_cache /\ check_cache THEN "absent" ELSE "none"]

---------------------------------------------------------------------------
(* Runs of main(): detector construction, clear, scan_directory *)

Tool == IF mode = "animals" THEN "animals" ELSE "faces"

\* --confidence values tried, in tenths.
Thresholds == {5}

\* What the model is taken to return for an image: a cat at 0.9 with a dog at
\* 0.6, or a person at 0.8 with a cat at 0.3.
RawSamples == {<<Box(9, 15), Box(6, 16)>>, <<Box(8, 0), Box(3, 15)>>}

ModelOutcomes == {ModelRaises} \cup {ModelReturns(b) : b \in RawSamples}

InitRun ==
    /\ cache = CacheClear
    /\ stats = ZeroStats
    /\ pos = 1
    /\ use_cache = TRUE
    /\ confidence_threshold = 5
    /\ image_files = <<>>
    /\ files_to_process = <<>>
    /\ invocations = [p \in Paths |-> 0]
    /\ stored = [p \in Paths |-> None]
    /\ setStat = [p \in Paths |-> <<>>]
    /\ lookup = [p \in Paths |-> "none"]
    /\ touched = [p \in Paths |-> FALSE]
    /\ setOutcome = "none"
    /\ clear_cache = FALSE

\* move_to_review has not been called.
InitNoReview ==
    /\ dry_run = TRUE
    /\ use_symlinks = FALSE
    /\ review = EmptyReview
    /\ movements = None
    /\ summary = None
    /\ dryCounts = None

\* One scan of the gallery itself, its files directly in it.
InitNoMain ==
    /\ directories = <<>>
    /\ root = 1
    /\ all_results = <<>>
    /\ depth = [p \in Paths |-> 0]

\* A gallery of NumFiles files, an empty cache directory.
Init ==
    /\ InitRun
    /\ InitNoReview
    /\ InitNoMain
    /\ pc = "start"
    /\ results = <<>>
    /\ raw = <<>>
    /\ mode \in {"animals", "person"}
    /\ fs = [p \in Paths |-> File(1, 1)]
    /\ runsLeft = MaxRuns
    /\ envLeft = MaxEnv

\* Mutant of ClearOnRequest: --clear-cache is ignored.
ClearNever(cc, uc, c) == c

\* `if args.clear_cache and detector.use_cache: detector.cache.clear()`
ClearOnRequest(cc, uc, c) == IF cc /\ uc THEN CacheClear ELSE c

\* main() up to the first loop of scan_directory: the detector and its
\* DetectionCache instance are built, the cache is cleared on request, and
\* scan_directory collects the image files.
StartRunAt(thresholds) ==
    /\ pc \in {"start", "done"}
    /\ runsLeft > 0
    /\ \E uc \in BOOLEAN, cc \in BOOLEAN, thr \in thresholds,
          files \in CollectImageFiles(extensions) :
        /\ use_cache' = uc
        /\ clear_cache' = cc
        /\ confidence_threshold' = thr
        /\ cache' = ClearOnRequest(cc, uc, cache)
        /\ stored' = IF cc /\ uc THEN [p \in Paths |-> None] ELSE stored
        /\ invocations' = IF cc /\ uc THEN [p \in Paths |-> 0] ELSE invocations
        /\ image_files' = files
        /\ files_to_process' = IF Tool = "animals" /\ ~uc THEN files ELSE <<>>
        /\ pc' = IF files = <<>> THEN "done"
                 ELSE IF Tool = "animals" /\ uc THEN "prefilter" ELSE "process"
    /\ stats' = ZeroStats
    /\ results' = <<>>
    /\ pos' = 1
    /\ runsLeft' = runsLeft - 1
    /\ lookup' = [p \in Paths |-> "none"]
    /\ setOutcome' = "none"
    /\ UNCHANGED <<mode, mainVars, fs, envLeft, setStat, touched, raw, relocVars>>

StartRun == StartRunAt(Thresholds)

\* Mutant of NeedsProcessing: the else of the pre-filter test is lost, every
\* file is queued.
NeedsProcessingAlways(cached_result) == TRUE

\* The pre-filter test `cached_result is not None`, negated: the file goes to
\* files_to_process.
NeedsProcessing(cached_result) == cached_result = None

\* detect_animals.py scan_directory, one turn of the pre-filter loop.
Prefilter ==
    /\ pc = "prefilter"
    /\ LET p == image_files[pos]
           g == CacheGet(p)
           todo == IF NeedsProcessing(g.ret) THEN Append(files_to_process, p)
                   ELSE files_to_process
       IN /\ stats' = g.stats
          /\ results' = IF IsResult(g.ret) THEN Append(results, g.ret) ELSE results
          /\ files_to_process' = todo
          /\ lookup' = [lookup EXCEPT ![p] = IF IsResult(g.ret) THEN "hit" ELSE "absent"]
          /\ touched' = [touched EXCEPT ![p] = FALSE]
          /\ IF IsRaised(g.ret) THEN pc' = "crashed" /\ pos' = pos
             ELSE IF pos < Len(image_files) THEN pc' = "prefilter" /\ pos' = pos + 1
             ELSE /\ pos' = 1
                  /\ pc' = IF todo = <<>> THEN "done" ELSE "process"
    /\ UNCHANGED <<mode, mainVars, fs, cache, runsLeft, use_cache, confidence_threshold,
                   image_files, envLeft, invocations, stored, setStat, setOutcome,
                   clear_cache, raw,
                   relocVars>>

\* The list the detection loop of scan_directory iterates.
WorkList == IF Tool = "animals" THEN files_to_process ELSE image_files

\* scan_directory, one turn of the detection loop: detect and results.append.
Process ==
    /\ pc = "process"
    /\ \E opens \in BOOLEAN, out \in ModelOutcomes, w \in WriteOutcomes :
        LET p == WorkList[pos]
            d == Detect(p, Tool = "faces", opens, out, w)
            wrote == d.cache # cache
            kept == wrote /\ d.cache[FileHash(p)] # Corrupt
        IN /\ stats' = d.stats
           /\ cache' = d.cache
           /\ results' = IF IsRaised(d.ret) THEN results ELSE Append(results, d.ret)
           /\ invocations' =
                IF d.invoked /\ use_cache THEN [invocations EXCEPT ![p] = @ + 1]
                ELSE invocations
           /\ stored' = IF kept THEN [stored EXCEPT ![p] = d.cache[FileHash(p)]]
                        ELSE IF wrote THEN [stored EXCEPT ![p] = None]
                        ELSE stored
           /\ setStat' = IF kept THEN [setStat EXCEPT ![p] = Stat(p)] ELSE setStat
           /\ lookup' = IF d.looked = "none" THEN lookup
                        ELSE [lookup EXCEPT ![p] = d.looked]
           /\ setOutcome' = IF ~use_cache \/ ~d.invoked \/ out = ModelRaises THEN "none"
                            ELSE IF w = "ok" THEN "ok" ELSE "failed"
           /\ touched' = IF d.looked = "none" THEN touched
                         ELSE [touched EXCEPT ![p] = FALSE]
           /\ IF IsRaised(d.ret) THEN pc' = "crashed" /\ pos' = pos
              ELSE IF pos < Len(WorkList) THEN pc' = "process" /\ pos' = pos + 1
              ELSE pc' = "done" /\ pos' = 1
    /\ UNCHANGED <<mode, mainVars, fs, runsLeft, use_cache, confidence_threshold, image_files,
                   files_to_process, envLeft, clear_cache, raw, relocVars>>

---------------------------------------------------------------------------
(* Environment: the gallery and the cache directory change under the runs *)

\* A file of the gallery is rewritten: another mtime or size.
ModifyFile ==
    /\ envLeft > 0
    /\ \E p \in Paths, m \in Stamps, s \in Stamps :
        /\ Exists(p)
        /\ File(m, s) # fs[p]
        /\ fs' = [fs EXCEPT ![p] = File(m, s)]
        /\ invocations' = [invocations EXCEPT ![p] = 0]
        /\ stored' = [stored EXCEPT ![p] = None]
        /\ touched' = [touched EXCEPT ![p] = TRUE]
    /\ envLeft' = envLeft - 1
    /\ UNCHANGED <<mode, mainVars, cache, stats, pc, pos, runsLeft, use_cache,
                   confidence_threshold, image_files, files_to_process, results,
                   setStat, lookup, setOutcome, clear_cache, raw, relocVars>>

\* A file is deleted.
DeleteFile ==
    /\ envLeft > 0
    /\ \E p \in Paths :
        /\ Exists(p)
        /\ fs' = [fs EXCEPT ![p] = Missing]
        /\ invocations' = [invocations EXCEPT ![p] = 0]
        /\ stored' = [stored EXCEPT ![p] = None]
        /\ touched' = [touched EXCEPT ![p] = FALSE]
    /\ envLeft' = envLeft - 1
    /\ UNCHANGED <<mode, mainVars, cache, stats, pc, pos, runsLeft, use_cache,
                   confidence_threshold, image_files, files_to_process, results,
                   setStat, lookup, setOutcome, clear_cache, raw, relocVars>>

\* An entry of the cache directory becomes unreadable (damaged or truncated
\* file, read error).
DamageEntry ==
    /\ envLeft > 0
    /\ \E k \in Keys :
        /\ cache[k] \notin {NoEntry, Corrupt}
        /\ cache' = [cache EXCEPT ![k] = Corrupt]
        /\ stored' = [p \in Paths |->
                        IF Exists(p) /\ FileHash(p) = k THEN None ELSE stored[p]]
        /\ invocations' = [p \in Paths |->
                        IF Exists(p) /\ FileHash(p) = k THEN 0 ELSE invocations[p]]
    /\ envLeft' = envLeft - 1
    /\ UNCHANGED <<mode, mainVars, fs, stats, pc, pos, runsLeft, use_cache, confidence_threshold,
                   image_files, files_to_process, results, setStat, lookup, touched,
                   setOutcome, clear_cache, raw, relocVars>>

Next == StartRun \/ Prefilter \/ Process \/ ModifyFile \/ DeleteFile \/ DamageEntry

\* Runs that differ in --confidence: 0.5 (the default) and 0.7.
StartRunAny == StartRunAt({5, 7})

NextThreshold == StartRunAny \/ Prefilter \/ Process

SpecThreshold == Init /\ [][NextThreshold]_vars

Spec == Init /\ [][Next]_vars

\* A gallery holding one image, scanned up to LongRuns times.
InitOne ==
    /\ InitRun
    /\ InitNoReview
    /\ InitNoMain
    /\ pc = "start"
    /\ results = <<>>
    /\ raw = <<>>
    /\ mode \in {"animals", "person"}
    /\ fs = [p \in Paths |-> IF p = 1 THEN File(1, 1) ELSE Missing]
    /\ runsLeft = LongRuns
    /\ envLeft = LongEnv

SpecOne == InitOne /\ [][Next]_vars

\* The entry file of one path turns up under a key of another path: the case
\* the path test of get is written for (two identities with one digest, or a
\* .pkl file copied or renamed inside the cache directory).
ForeignEntry ==
    /\ envLeft > 0
    /\ \E k \in Keys, k2 \in Keys :
        /\ IsResult(cache[k])
        /\ cache[k].path = k[1]
        /\ k2[1] # k[1]
        /\ cache' = [cache EXCEPT ![k2] = cache[k]]
        /\ stored' = [p \in Paths |->
                        IF Exists(p) /\ FileHash(p) = k2 THEN None ELSE stored[p]]
        /\ invocations' = [p \in Paths |->
                        IF Exists(p) /\ FileHash(p) = k2 THEN 0 ELSE invocations[p]]
    /\ envLeft' = envLeft - 1
    /\ UNCHANGED <<mode, mainVars, fs, stats, pc, pos, runsLeft, use_cache, confidence_threshold,
                   image_files, files_to_process, results, setStat, lookup, touched,
                   setOutcome, clear_cache, raw, relocVars>>

NextForeign == Next \/ ForeignEntry

SpecForeign == Init /\ [][NextForeign]_vars

---------------------------------------------------------------------------
(* One call of detect *)

\* Boxes the model can return: confidences below, at and above the threshold
\* of InitRun; a person, a cat, a dog, a backpack (named in ANIMAL_CLASSES but
\* no living subject).
BoxSamples == {Box(c, k) : c \in {4, 5, 6}, k \in {0, 15, 16, 24}}

RECURSIVE BoxLists(_)
BoxLists(n) ==
    IF n = 0 THEN {<<>>}
    ELSE BoxLists(n - 1) \cup
         {Append(l, b) : l \in {x \in BoxLists(n - 1) : Len(x) = n - 1}, b \in BoxSamples}

InitDetect ==
    /\ InitRun
    /\ InitNoReview
    /\ InitNoMain
    /\ pc = "start"
    /\ results = <<>>
    /\ mode \in {"animals", "person", "face"}
    /\ fs = [p \in Paths |-> File(1, 1)]
    /\ raw \in BoxLists(MaxBoxes)
    /\ runsLeft = 1
    /\ envLeft = 0

\* detector.detect(image 1) on an empty cache, the model returning raw.
DetectImage ==
    /\ pc = "start"
    /\ runsLeft > 0
    /\ LET d == Detect(1, TRUE, TRUE, ModelReturns(raw), "ok")
       IN /\ results' = <<d.ret>>
          /\ cache' = d.cache
          /\ stats' = d.stats
    /\ pc' = "done"
    /\ runsLeft' = runsLeft - 1
    /\ UNCHANGED <<mode, mainVars, fs, pos, raw, use_cache, confidence_threshold, image_files,
                   files_to_process, envLeft, invocations, stored, setStat, lookup,
                   touched, setOutcome, clear_cache, relocVars>>

SpecDetect == InitDetect /\ [][DetectImage]_vars

---------------------------------------------------------------------------
(* One cache directory used from several working directories *)

\* Two galleries with a file of the same name, /A/gallery/1.jpg and
\* /B/gallery/1.jpg, and the directories the scripts are started in.
AbsFiles == {<<"A", "gallery", "1.jpg">>, <<"B", "gallery", "1.jpg">>}
WorkingDirs == {<<>>, <<"A">>, <<"B">>}

\* The file can be named by a relative path from the working directory.
Inside(f, cwd) == Len(cwd) < Len(f) /\ SubSeq(f, 1, Len(cwd)) = cwd

\* The path scan_directory hands to the cache for file f when the script runs
\* in cwd with a relative --gallery-dir.
RelativePath(f, cwd) == SubSeq(f, Len(cwd) + 1, Len(f))

RelativePaths ==
    {RelativePath(x[1], x[2]) : x \in {y \in AbsFiles \X WorkingDirs : Inside(y[1], y[2])}}

SharedKeys == {HashInput(r, m, s) : r \in RelativePaths, m \in Stamps, s \in Stamps}

\* The Result detect builds for file f addressed as `path`: its detections
\* are those of the picture in f.
ResultOf(f, path) == [path |-> path, picture |-> f]

\* get(file_path) over the shared cache directory, for file f named `path`.
SharedGet(f, path) ==
    LET k == HashInput(path, fs[f].mtime, fs[f].size)
    IN IF cache[k] # NoEntry /\ cache[k].path = path THEN cache[k] ELSE None

\* Two files with their mtimes and sizes, an empty cache directory given by
\* an absolute --cache-dir.
InitKey ==
    /\ InitNoReview
    /\ InitNoMain
    /\ cache = [k \in SharedKeys |-> NoEntry]
    /\ fs \in [AbsFiles -> {File(m, sz) : m \in Stamps, sz \in Stamps}]
    /\ stats = ZeroStats
    /\ pos = 1
    /\ use_cache = TRUE
    /\ clear_cache = FALSE
    /\ confidence_threshold = 5
    /\ image_files = <<>>
    /\ files_to_process = <<>>
    /\ invocations = <<>>
    /\ stored = <<>>
    /\ setStat = <<>>
    /\ lookup = <<>>
    /\ touched = <<>>
    /\ setOutcome = "none"
    /\ pc = "start"
    /\ results = <<>>
    /\ raw = <<>>
    /\ mode = "animals"
    /\ runsLeft = MaxOps
    /\ envLeft = 0

\* A run started in cwd looks file f up and, on None, detects it and stores
\* the Result; `results` keeps what each lookup returned.
SharedScan ==
    /\ runsLeft > 0
    /\ \E f \in AbsFiles, cwd \in WorkingDirs :
        /\ Inside(f, cwd)
        /\ LET path == RelativePath(f, cwd)
               g == SharedGet(f, path)
               k == HashInput(path, fs[f].mtime, fs[f].size)
           IN /\ results' = Append(results, [file |-> f, cwd |-> cwd, ret |-> g])
              /\ cache' = IF g = None THEN [cache EXCEPT ![k] = ResultOf(f, path)]
                          ELSE cache
              /\ stats' = IF g = None THEN [stats EXCEPT !.misses = @ + 1]
                          ELSE [stats EXCEPT !.hits = @ + 1]
    /\ runsLeft' = runsLeft - 1
    /\ UNCHANGED <<mode, mainVars, fs, pc, pos, raw, use_cache, confidence_threshold,
                   image_files, files_to_process, envLeft, invocations, stored, setStat,
                   lookup, touched, setOutcome, clear_cache, relocVars>>

SpecKey == InitKey /\ [][SharedScan]_vars

---------------------------------------------------------------------------
(* A model call that never returns *)

\* scan_directory, a turn of the detection loop in which the call of the model
\* inside detect does not return: the loop, which calls detect for one file
\* after the other, stays in that call.
Hang ==
    /\ pc = "process"
    /\ LET p == WorkList[pos]
           d == Detect(p, Tool = "faces", TRUE, ModelRaises, "ok")
       IN /\ d.invoked
          /\ stats' = d.stats
    /\ pc' = "hung"
    /\ UNCHANGED <<mode, mainVars, fs, cache, pos, runsLeft, results, raw, use_cache,
                   confidence_threshold, image_files, files_to_process, envLeft,
                   invocations, stored, setStat, lookup, touched, setOutcome, clear_cache,
                   relocVars>>

NextHang == StartRun \/ Prefilter \/ Process \/ Hang

\* The steps of a scan are taken as long as the call they make returns.
SpecHang == Init /\ [][NextHang]_vars /\ WF_vars(Prefilter) /\ WF_vars(Process)

---------------------------------------------------------------------------
(* Relocation (move_to_review of both scripts) *)

review_dir == <<"review">>

Parent(path) == SubSeq(path, 1, Len(path) - 1)

\* The gallery file a path names.
FileOf(path) == IF Len(path) = 2 /\ path[1] = "sub2" THEN 2 ELSE Last(path)[1]

\* directory.mkdir(parents=True, exist_ok=True)
Mkdir(rv, d) == [rv EXCEPT !.dirs = @ \cup {SubSeq(d, 1, n) : n \in 1 .. Len(d)}]

\* The bucket directories made at the top of move_to_review.
TopDirs(md) ==
    IF md = "animals"
    THEN {review_dir \o <<"by_animal_type">>, review_dir \o <<"mixed_animals">>}
    ELSE {review_dir \o <<"high_confidence">>, review_dir \o <<"medium_confidence">>,
          review_dir \o <<"low_confidence">>}

\* `if not dry_run:` the mkdir calls of the bucket directories.
MkdirTop(dry, rv, md) ==
    IF dry THEN rv ELSE [rv EXCEPT !.dirs = @ \cup {review_dir} \cup TopDirs(md)]

\* Mutant of MkdirTarget: the test of dry_run is lost.
MkdirTargetAlways(dry, rv, d) == Mkdir(rv, d)

\* `if not dry_run: target_subdir.mkdir(parents=True, exist_ok=True)`
MkdirTarget(dry, rv, d) == IF dry THEN rv ELSE Mkdir(rv, d)

\* target_path.exists(): a symbolic link is followed to its source.
TargetExists(rv, gfs, target) ==
    \E f \in rv.files : f.path = target /\ (f.kind = "file" \/ gfs[f.source].exists)

Without(rv, target) == [rv EXCEPT !.files = {f \in @ : f.path # target}]

\* What the environment can refuse in one turn of the loop: nothing, the
\* creation of the target directory, the move or the link.
Failures == {"none", "mkdir", "transfer"}

\* The branch `if not dry_run:` that links or moves the file. A link is made
\* after removing a target that exists() sees; symlink_to raises
\* FileExistsError when a dangling link is still there. shutil.move raises
\* when the source is gone and replaces a file or link at the target.
Transfer(rv, gfs, p, target, sym, fail) ==
    IF sym
    THEN LET cleared == IF TargetExists(rv, gfs, target) THEN Without(rv, target) ELSE rv
         IN IF fail = "transfer"
            THEN [ret |-> Raised("link"), review |-> cleared, fs |-> gfs]
            ELSE IF \E f \in cleared.files : f.path = target
            THEN [ret |-> Raised("FileExistsError"), review |-> cleared, fs |-> gfs]
            ELSE [ret |-> None,
                  review |-> [cleared EXCEPT !.files = @ \cup
                                {[path |-> target, kind |-> "link", source |-> p]}],
                  fs |-> gfs]
    ELSE IF fail = "transfer" \/ ~gfs[p].exists
         THEN [ret |-> Raised("move"), review |-> rv, fs |-> gfs]
         ELSE [ret |-> None,
               review |-> [Without(rv, target) EXCEPT !.files = @ \cup
                             {[path |-> target, kind |-> "file", source |-> p]}],
               fs |-> [gfs EXCEPT ![p] = Missing]]

\* Mutant of MaxConfidence: the confidence of the first detection.
FirstConfidence(detections) == detections[1].confidence

\* max(d['confidence'] for d in detections)
MaxConfidence(detections) ==
    CHOOSE c \in {detections[i].confidence : i \in 1 .. Len(detections)} :
        \A i \in 1 .. Len(detections) : c >= detections[i].confidence

\* The movements dict before the loop.
NoMovements(md) ==
    IF md = "animals"
    THEN [by_type |-> [t \in {} |-> <<>>], mixed |-> <<>>, errors |-> <<>>]
    ELSE [high |-> <<>>, medium |-> <<>>, low |-> <<>>, errors |-> <<>>]

\* movements['by_type'][animal_type] = [] for a type not seen before.
WithType(by_type, animal_type) ==
    [t \in DOMAIN by_type \cup {animal_type} |->
        IF t \in DOMAIN by_type THEN by_type[t] ELSE <<>>]

\* The steps both scripts share once the bucket is known: relative_dir, the
\* target directory, the place where the record is appended to the bucket list
\* (`recorded`: that place was reached), the transfer. `empty`: building the
\* record raises (detect_animals.py takes the max() of the detections there).
Place(result, rv, gfs, dry, sym, fail, target_dir, empty) ==
    LET source_path == result.path IN
    IF Parent(source_path) = <<>>
    THEN [ret |-> Raised("IndexError"), recorded |-> FALSE, review |-> rv, fs |-> gfs]
    ELSE LET target_subdir == target_dir \o Tail(Parent(source_path))
             target_path == target_subdir \o <<Last(source_path)>>
         IN IF ~dry /\ fail = "mkdir"
            THEN [ret |-> Raised("mkdir"), recorded |-> FALSE, review |-> rv, fs |-> gfs]
            ELSE LET made == MkdirTarget(dry, rv, target_subdir) IN
                 IF empty
                 THEN [ret |-> Raised("ValueError"), recorded |-> FALSE, review |-> made,
                       fs |-> gfs]
                 ELSE
                 LET t == IF dry THEN [ret |-> None, review |-> made, fs |-> gfs]
                          ELSE Transfer(made, gfs, FileOf(source_path), target_path,
                                        sym, fail)
                 IN [ret |-> t.ret, recorded |-> TRUE, target |-> target_path,
                     review |-> t.review, fs |-> t.fs]

NoDetections(result) == "detections" \notin DOMAIN result \/ result.detections = <<>>

\* Mutant of SingleType: the first type decides whenever there is one.
SingleTypeOrMore(animal_types) == Cardinality(animal_types) >= 1

\* `if len(animal_types) == 1:`
SingleType(animal_types) == Cardinality(animal_types) = 1

\* detect_animals.py, the try block of one turn of the loop.
RelocateTryAnimals(result, mv, rv, gfs, dry, sym, fail) ==
    LET animal_types == DictGet(result, "animal_types", {})
        single == SingleType(animal_types)
        animal_type == CHOOSE t \in animal_types : TRUE
        seen == IF single THEN [mv EXCEPT !.by_type = WithType(@, animal_type)] ELSE mv
        target_dir == IF single THEN review_dir \o <<"by_animal_type", animal_type>>
                      ELSE review_dir \o <<"mixed_animals">>
        t == Place(result, rv, gfs, dry, sym, fail, target_dir, NoDetections(result))
    IN IF ~t.recorded
       THEN [ret |-> t.ret, movements |-> seen, review |-> t.review, fs |-> t.fs]
       ELSE LET movement_info ==
                    [source |-> result.path, target |-> t.target,
                     count |-> DictGet(result, "count", 0), types |-> animal_types,
                     max_confidence |-> MaxConfidence(result.detections)]
            IN [ret |-> t.ret,
                movements |-> IF single
                              THEN [seen EXCEPT !.by_type[animal_type] =
                                                    Append(@, movement_info)]
                              ELSE [seen EXCEPT !.mixed = Append(@, movement_info)],
                review |-> t.review, fs |-> t.fs]

\* The confidence bands of detect_faces_simple.py, in tenths.
Band(max_confidence) ==
    IF max_confidence >= 8 THEN "high"
    ELSE IF max_confidence >= 5 THEN "medium"
    ELSE "low"

\* detect_faces_simple.py, the try block of one turn of the loop. The max()
\* comes first and raises on an empty detections list.
RelocateTryFaces(result, mv, rv, gfs, dry, sym, fail) ==
    IF NoDetections(result)
    THEN [ret |-> Raised("ValueError"), movements |-> mv, review |-> rv, fs |-> gfs]
    ELSE LET max_confidence == MaxConfidence(result.detections)
             category == Band(max_confidence)
             target_dir == review_dir \o <<category \o "_confidence">>
             t == Place(result, rv, gfs, dry, sym, fail, target_dir, FALSE)
             movement_info ==
                 [source |-> result.path, target |-> t.target,
                  confidence |-> max_confidence,
                  detections |-> DictGet(result, "count", 0)]
         IN [ret |-> t.ret,
             movements |-> IF t.recorded THEN [mv EXCEPT ![category] = Append(@, movement_info)]
                           ELSE mv,
             review |-> t.review, fs |-> t.fs]

\* Mutant of RelocateExcept: the exception is raised again.
RelocateExceptReraises(result, t) == t

\* The except clause of the loop: the error is recorded, the loop goes on.
RelocateExcept(result, t) ==
    [t EXCEPT !.ret = None,
              !.movements.errors = Append(@, [path |-> result.path, error |-> t.ret.exc])]

\* One turn of the loop over results, for a Result with detections.
Relocate(result, mv, rv, gfs, md, dry, sym, fail) ==
    LET t == IF md = "animals" THEN RelocateTryAnimals(result, mv, rv, gfs, dry, sym, fail)
             ELSE RelocateTryFaces(result, mv, rv, gfs, dry, sym, fail)
    IN IF IsRaised(t.ret) THEN RelocateExcept(result, t) ELSE t

\* The summary dict (its timestamp left out).
Summary(mv, md, dry, sym) ==
    IF md = "animals"
    THEN LET RECURSIVE Total(_)
             Total(S) == IF S = {} THEN 0
                         ELSE LET t == CHOOSE x \in S : TRUE
                              IN Len(mv.by_type[t]) + Total(S \ {t})
         IN [dry_run |-> dry, use_symlinks |-> sym,
             total_candidates |-> Total(DOMAIN mv.by_type) + Len(mv.mixed),
             by_animal_type |-> [t \in DOMAIN mv.by_type |-> Len(mv.by_type[t])],
             mixed_animals |-> Len(mv.mixed),
             errors |-> Len(mv.errors), movements |-> mv]
    ELSE [dry_run |-> dry, use_symlinks |-> sym,
          total_candidates |-> Len(mv.high) + Len(mv.medium) + Len(mv.low),
          high_confidence |-> Len(mv.high), medium_confidence |-> Len(mv.medium),
          low_confidence |-> Len(mv.low),
          errors |-> Len(mv.errors), movements |-> mv]

---------------------------------------------------------------------------
(* Calls of move_to_review *)

MaxResults == 2
MaxCalls == 2

\* Results a scan can hand over for file p: what detect builds (at threshold
\* 0.3) from the boxes below, or the Result of a failed detection.
ReviewRaw(md) ==
    IF md = "animals"
    THEN {<<Box(9, 15)>>, <<Box(6, 15), Box(9, 16)>>, <<Box(8, 0)>>}
    ELSE {<<Box(6, 0), Box(8, 0)>>, <<Box(5, 0)>>, <<Box(4, 0)>>, <<Box(9, 15)>>}

\* The Result of a file scanned with the gallery as working directory: its
\* path has no directory part.
BareResult(p, md) ==
    [BuildResult(p, Detections(<<Box(9, 0), Box(9, 15)>>, md, 3), md)
        EXCEPT !.path = <<Last(@)>>]

ReviewResults(p, md) ==
    {BuildResult(p, Detections(b, md, 3), md) : b \in ReviewRaw(md)}
        \cup {ErrorResult(p, "open", md), BareResult(p, md)}

\* The lists of up to n Results, the i-th for file i.
RECURSIVE ResultLists(_, _)
ResultLists(n, md) ==
    IF n = 0 THEN {<<>>}
    ELSE ResultLists(n - 1, md) \cup
         {Append(l, r) : l \in {x \in ResultLists(n - 1, md) : Len(x) = n - 1},
                         r \in ReviewResults(n, md)}

\* A list of Results of an earlier scan; since then some files may have gone.
InitReloc ==
    /\ InitRun
    /\ InitNoReview
    /\ InitNoMain
    /\ raw = <<>>
    /\ mode \in {"animals", "person"}
    /\ results \in ResultLists(MaxResults, mode)
    /\ fs \in [Paths -> {File(1, 1), Missing}]
    /\ pc = "review"
    /\ runsLeft = MaxCalls
    /\ envLeft = 0

\* move_to_review up to its loop: the arguments, the bucket directories, the
\* empty movements dict. A mkdir that fails here leaves move_to_review.
StartReview ==
    /\ pc \in {"review", "returned", "aborted"}
    /\ runsLeft > 0
    /\ \E dry \in BOOLEAN, sym \in BOOLEAN, fail \in {"none", "mkdir"} :
        /\ dry_run' = dry
        /\ use_symlinks' = sym
        /\ IF ~dry /\ fail = "mkdir"
           THEN pc' = "aborted" /\ review' = review /\ movements' = None
           ELSE /\ pc' = "relocate"
                /\ review' = MkdirTop(dry, review, mode)
                /\ movements' = NoMovements(mode)
    /\ pos' = 1
    /\ summary' = None
    /\ runsLeft' = runsLeft - 1
    /\ UNCHANGED <<mode, mainVars, fs, results, raw, scanVars, dryCounts>>

\* One turn of the loop: a Result without detections is passed over, one with
\* detections is classified and relocated.
RelocateResult ==
    /\ pc = "relocate"
    /\ pos <= Len(results)
    /\ LET result == results[pos] IN
       IF ~DictGet(result, "has_detections", FALSE)
       THEN UNCHANGED <<movements, review, fs, pc>>
       ELSE \E fail \in Failures :
               LET r == Relocate(result, movements, review, fs, mode, dry_run,
                                 use_symlinks, fail)
               IN /\ movements' = r.movements
                  /\ review' = r.review
                  /\ fs' = r.fs
                  /\ pc' = IF IsRaised(r.ret) THEN "aborted" ELSE pc
    /\ pos' = pos + 1
    /\ UNCHANGED <<mode, mainVars, runsLeft, results, raw, scanVars, dry_run, use_symlinks,
                   summary, dryCounts>>

\* The candidate counts of a summary.
Counts(sm) == [c \in DOMAIN sm \ {"dry_run", "use_symlinks", "errors", "movements"} |-> sm[c]]

ReportFile(name) == [path |-> review_dir \o <<name>>, kind |-> "file", source |-> 0]

\* How writing the two report files can end.
ReportOutcomes == {"ok", "nosummary", "noreadme"}

\* Mutant of WriteReports: the report files are written in a dry run too.
WriteReportsAlways(dry, rv, w) ==
    [rv EXCEPT !.files = @ \cup {ReportFile("review_summary.json"), ReportFile("README.txt")}]

\* The block `if not dry_run:` after the summary: review_summary.json is
\* opened and written, then README.txt; an open() that fails ends the block.
WriteReports(dry, rv, w) ==
    IF dry THEN rv
    ELSE [rv EXCEPT !.files =
            @ \cup (IF w = "nosummary" THEN {} ELSE {ReportFile("review_summary.json")})
              \cup (IF w = "ok" THEN {ReportFile("README.txt")} ELSE {})]

\* move_to_review after its loop: the summary, the two report files of a real
\* run, the return. An open() that fails leaves move_to_review.
FinishReview ==
    /\ pc = "relocate"
    /\ pos > Len(results)
    /\ \E w \in ReportOutcomes :
        LET sm == Summary(movements, mode, dry_run, use_symlinks) IN
        IF dry_run
        THEN /\ summary' = sm
             /\ pc' = "returned"
             /\ dryCounts' = Counts(sm)
             /\ review' = WriteReports(dry_run, review, w)
        ELSE /\ dryCounts' = dryCounts
             /\ summary' = IF w = "ok" THEN sm ELSE None
             /\ pc' = IF w = "ok" THEN "returned" ELSE "aborted"
             /\ review' = WriteReports(dry_run, review, w)
    /\ UNCHANGED <<mode, mainVars, fs, pos, runsLeft, results, raw, scanVars, dry_run,
                   use_symlinks, movements>>

NextReloc == StartReview \/ RelocateResult \/ FinishReview

SpecReloc == InitReloc /\ [][NextReloc]_vars

\* The Results of a scan started inside the gallery (--gallery-dir .), whose
\* subdirectories sub1 and sub2 each hold a file 1.jpg: file 1 and file 2 of
\* the gallery. str(Path('.') / 'sub1' / '1.jpg') is 'sub1/1.jpg'.
InsidePath(p) == <<IF p = 1 THEN "sub1" ELSE "sub2", <<1, ".jpg">>>>

InsideResults(p, md) ==
    {[BuildResult(p, Detections(b, md, 3), md) EXCEPT !.path = InsidePath(p)] :
        b \in ReviewRaw(md)}

InitCollide ==
    /\ InitRun
    /\ InitNoReview
    /\ InitNoMain
    /\ raw = <<>>
    /\ mode \in {"animals", "person"}
    /\ results \in {<<a, b>> : a \in InsideResults(1, mode), b \in InsideResults(2, mode)}
    /\ fs \in [Paths -> {File(1, 1), Missing}]
    /\ pc = "review"
    /\ runsLeft = MaxCalls
    /\ envLeft = 0

SpecCollide == InitCollide /\ [][NextReloc]_vars

---------------------------------------------------------------------------
(* main() of both scripts: the loop over the directories, then move_to_review *)

\* The names --subdirs can carry: "." is the gallery itself (gallery_path / "."
\* is gallery_path), "gone" names no directory.
Subdirs == {".", "gone"}

\* args.subdirs: up to MaxRoots names; without --subdirs it is None, which
\* the test below takes like an empty list.
SubdirArgs == UNION {[1 .. n -> Subdirs] : n \in 0 .. MaxRoots}

\* `if args.subdirs: ... else: ...`: the gallery holds no subdirectory, so
\* without --subdirs the gallery itself is the one directory.
Directories(subdirs) == IF subdirs = <<>> THEN <<".">> ELSE subdirs

\* Mutant of DirExists: no directory is found.
DirExistsNever(d) == FALSE

\* directory.exists()
DirExists(d) == d = "."

\* A gallery whose files may be gone, an empty cache directory, an empty
\* review directory.
InitMain ==
    /\ InitRun
    /\ InitNoReview
    /\ InitNoMain
    /\ pc = "start"
    /\ results = <<>>
    /\ raw = <<>>
    /\ mode \in {"animals", "person"}
    /\ fs \in {[p \in Paths |-> File(1, 1)], [p \in Paths |-> Missing]}
    /\ runsLeft = 0
    /\ envLeft = 0

\* main() up to the loop over the directories: the gallery is validated, the
\* detector is built and the cache cleared on request. A gallery that is not
\* there and a detector that cannot be built end main.
MainStart ==
    /\ pc = "start"
    /\ \E gallery \in BOOLEAN, built \in BOOLEAN, uc \in BOOLEAN, cc \in BOOLEAN,
          subdirs \in SubdirArgs :
        /\ gallery \/ \A p \in Paths : ~Exists(p)
        /\ IF ~gallery \/ ~built
           THEN /\ pc' = "exit"
                /\ UNCHANGED <<use_cache, clear_cache, cache, directories>>
           ELSE /\ pc' = "scan"
                /\ use_cache' = uc
                /\ clear_cache' = cc
                /\ cache' = ClearOnRequest(cc, uc, cache)
                /\ directories' = Directories(subdirs)
    /\ root' = 1
    /\ all_results' = <<>>
    /\ stats' = ZeroStats
    /\ UNCHANGED <<mode, fs, pos, runsLeft, results, raw, confidence_threshold,
                   image_files, files_to_process, envLeft, invocations, stored, setStat,
                   lookup, touched, setOutcome, relocVars, depth>>

\* One turn of `for directory in directories:` up to the first loop of
\* scan_directory: a directory that is not there is warned about and passed
\* over, the files of one that is there are collected.
ScanDirectory ==
    /\ pc = "scan"
    /\ root <= Len(directories)
    /\ IF DirExists(directories[root])
       THEN \E files \in CollectImageFiles(extensions) :
               /\ image_files' = files
               /\ files_to_process' = IF Tool = "animals" /\ ~use_cache THEN files ELSE <<>>
               /\ pc' = IF files = <<>> THEN "done"
                        ELSE IF Tool = "animals" /\ use_cache THEN "prefilter"
                        ELSE "process"
               /\ results' = <<>>
               /\ pos' = 1
               /\ root' = root
       ELSE /\ root' = root + 1
            /\ UNCHANGED <<image_files, files_to_process, pc, results, pos>>
    /\ UNCHANGED <<mode, fs, cache, stats, runsLeft, raw, use_cache, confidence_threshold,
                   envLeft, invocations, stored, setStat, lookup, touched, setOutcome,
                   clear_cache, relocVars, directories, all_results, depth>>

\* scan_directory returns: `all_results.extend(results)`, the next directory.
ExtendResults ==
    /\ pc = "done"
    /\ all_results' = all_results \o results
    /\ root' = root + 1
    /\ pc' = "scan"
    /\ UNCHANGED <<mode, fs, pos, runsLeft, results, raw, scanVars, relocVars,
                   directories, depth>>

\* images_with_detections
WithDetections(rs) == SelectSeq(rs, LAMBDA r : DictGet(r, "has_detections", FALSE))

\* Mutant of LoopOver: the code after the loop does not wait for its end.
LoopOverEarly(r, dirs) == TRUE

\* `for directory in directories:` has passed the last directory.
LoopOver(r, dirs) == r > Len(dirs)

\* main() after the loop: with a Result that has detections move_to_review
\* is called with all_results (detect_faces_simple.py: unless --report-only
\* is given), otherwise main ends.
HandOver ==
    /\ pc = "scan"
    /\ LoopOver(root, directories)
    /\ \E report_only \in BOOLEAN :
        /\ report_only => Tool = "faces"
        /\ IF WithDetections(all_results) # <<>> /\ ~report_only
           THEN /\ results' = all_results
                /\ pc' = "review"
                /\ runsLeft' = 1
           ELSE /\ pc' = "exit"
                /\ UNCHANGED <<results, runsLeft>>
    /\ UNCHANGED <<mode, fs, pos, raw, scanVars, relocVars, mainVars>>

\* A directory tree of up to GlobFiles files, some below the scanned
\* directory, with extensions in several spellings; the scan is about to start.
InitGlob ==
    /\ InitRun
    /\ InitNoReview
    /\ pc = "scan"
    /\ results = <<>>
    /\ raw = <<>>
    /\ mode \in {"animals", "person"}
    /\ fs \in [1 .. GlobFiles -> {File(1, 1), Missing}]
    /\ depth \in [1 .. GlobFiles -> 0 .. MaxDepth]
    /\ \A p \in 1 .. GlobFiles : ~Exists(p) => depth[p] = 0
    /\ directories = <<".">>
    /\ root = 1
    /\ all_results = <<>>
    /\ runsLeft = 0
    /\ envLeft = 0

SpecGlob == InitGlob /\ [][ScanDirectory]_vars

NextMain ==
    \/ MainStart
    \/ ScanDirectory
    \/ Prefilter
    \/ Process
    \/ ExtendResults
    \/ HandOver
    \/ StartReview
    \/ RelocateResult
    \/ FinishReview

SpecMain == InitMain /\ [][NextMain]_vars

---------------------------------------------------------------------------
(* Steps of the scan, as seen from a pair of states *)

Advanced == <<pc, pos>>' # <<pc, pos>>

PrefilterStep(p) == pc = "prefilter" /\ Advanced /\ image_files[pos] = p
ProcessStep(p) == pc = "process" /\ Advanced /\ WorkList[pos] = p

\* The step performs cache.get(p): the pre-filter loop of detect_animals.py,
\* detect of detect_faces_simple.py.
LookupStep(p) ==
    \/ PrefilterStep(p)
    \/ ProcessStep(p) /\ Tool = "faces" /\ use_cache

\* The step appends a Result for p that detect computed: the model was called,
\* or the Result carries the error that kept it from being called.
Detected(p) ==
    /\ Len(results') = Len(results) + 1
    /\ Last(results').path = PathStr(p)
    /\ \/ invocations'[p] = invocations[p] + 1
       \/ "error" \in DOMAIN Last(results')

\* The step queues p for detection and returns nothing for it yet.
Queued(p) == files_to_process' = Append(files_to_process, p) /\ results' = results

IsError(r) == "error" \in DOMAIN r

---------------------------------------------------------------------------
(* Claims *)

\* C1: after a successful set(p, r), while p keeps its mtime and size and the
\* entry is neither cleared nor damaged, every get(p), also by the
\* DetectionCache of a later run, returns r, adds one to hits and nothing to
\* misses or invalid, and the Result of the scan for p is r.
C1_HitReturnsStored ==
    [][\A p \in Paths :
          (LookupStep(p) /\ stored[p] # None) =>
              /\ stats' = [stats EXCEPT !.hits = @ + 1]
              /\ results' = Append(results, stored[p])
              /\ lookup'[p] = "hit"
              /\ cache' = cache
              /\ invocations' = invocations]_vars

\* C1 witness: the second scan of a one-image gallery has ended with one hit,
\* no miss, and the stored Result, which has detections.
C1_Witness ==
    /\ pc = "done"
    /\ runsLeft = LongRuns - 2
    /\ stats = [hits |-> 1, misses |-> 0, invalid |-> 0]
    /\ image_files = <<1>>
    /\ results = <<stored[1]>>
    /\ results[1].has_detections

\* C2 as stated: when p was rewritten after the last successful set and its
\* mtime or size differs from what it was at that set, the next get(p) is a
\* miss and returns None.
C2_Original ==
    [][\A p \in Paths :
          (/\ LookupStep(p) /\ Exists(p) /\ touched[p]
           /\ setStat[p] # <<>> /\ Stat(p) # setStat[p]) =>
              /\ stats' = [stats EXCEPT !.misses = @ + 1]
              /\ lookup'[p] = "absent"]_vars

\* C2 amended: once the mtime or size of p differs from what it was at the last
\* successful set, and no entry is stored for p under the new mtime and size,
\* get(p) returns None and adds one to misses only, and the scan computes the
\* Result of p with detect (the model is called, or the Result carries the
\* error that prevented it) instead of reading it from the cache.
C2_MissAfterChange ==
    [][\A p \in Paths :
          /\ (/\ LookupStep(p) /\ Exists(p)
              /\ setStat[p] # <<>> /\ Stat(p) # setStat[p]
              /\ cache[<<PathStr(p), fs[p].mtime, fs[p].size>>] = NoEntry) =>
                 /\ stats' = [stats EXCEPT !.misses = @ + 1]
                 /\ lookup'[p] = "absent"
                 /\ Tool = "animals" => Queued(p)
                 /\ Tool = "faces" => Detected(p)
          /\ (ProcessStep(p) /\ Tool = "animals" /\ use_cache) => Detected(p)]_vars

\* C2 witness: a one-image gallery whose image was stored, then rewritten, then
\* scanned again: the scan ended with a miss and the cache now holds the old
\* entry and the new one.
C2_Witness ==
    /\ pc = "done"
    /\ Exists(1)
    /\ stats = [hits |-> 0, misses |-> 1, invalid |-> 0]
    /\ Cardinality({k \in Keys : IsResult(cache[k])}) = 2
    /\ stored[1] = cache[FileHash(1)]

\* The counters that a step leaves one higher.
Raisen == {c \in {"hits", "misses", "invalid"} : stats'[c] = stats[c] + 1}

\* C11 as stated: a call of get adds one to exactly one counter and leaves the
\* other two: to hits when it returns the entry, to invalid when the entry
\* at the key embeds another path, to misses when there is no entry.
C11_Original ==
    [][\A p \in Paths :
          (LookupStep(p) /\ Exists(p)) =>
              LET cached == cache[<<PathStr(p), fs[p].mtime, fs[p].size>>]
                  one == IF cached = NoEntry THEN "misses"
                         ELSE IF IsResult(cached) /\ cached.path = PathStr(p) THEN "hits"
                         ELSE "invalid"
              IN /\ Raisen = {one}
                 /\ \A c \in {"hits", "misses", "invalid"} \ {one} : stats'[c] = stats[c]
                 /\ lookup'[p] = IF one = "hits" THEN "hit" ELSE "absent"]_vars

\* C12: when the write inside cache.set fails (open refused, or pickle.dump
\* failing part-way), set returns and the detect that called it returns the
\* Result it computed, without error, to scan_directory, which appends it and
\* goes on; nothing raises.
C12_SetFailureSwallowed ==
    [][\A p \in Paths :
          (ProcessStep(p) /\ setOutcome' = "failed") =>
              /\ pc' \in {"process", "done"}
              /\ Len(results') = Len(results) + 1
              /\ ~IsError(Last(results'))
              /\ Last(results').path = PathStr(p)
              /\ Last(results').count = Len(Last(results').detections)
              /\ LET k == <<PathStr(p), fs[p].mtime, fs[p].size>>
                 IN cache'[k] \in {cache[k], Corrupt}]_vars

\* C12 witness: a scan ended with a detect whose cache write failed: the
\* Result it returned has detections and no error, and no entry holds it.
C12_Witness ==
    /\ pc = "done"
    /\ setOutcome = "failed"
    /\ ~IsError(Last(results))
    /\ Last(results).has_detections
    /\ \A k \in Keys : cache[k] # Last(results)

\* C13 as stated: a set never leaves an empty or partly written entry file
\* for a later get to read: after a step of the detection loop every entry
\* that was not unreadable before is absent or complete.
C13_Original ==
    [][\A k \in Keys :
          (pc = "process" /\ Advanced /\ cache[k] # Corrupt) => cache'[k] # Corrupt]_vars

\* The Results with detections of a call.
Candidates == {i \in 1 .. Len(results) : results[i].has_detections}

\* The paths the records of a call name.
RecordPaths(mv) ==
    LET Sources(l) == {l[i].source : i \in 1 .. Len(l)}
    IN {mv.errors[i].path : i \in 1 .. Len(mv.errors)} \cup
       (IF mode = "animals"
        THEN Sources(mv.mixed) \cup UNION {Sources(mv.by_type[t]) : t \in DOMAIN mv.by_type}
        ELSE Sources(mv.high) \cup Sources(mv.medium) \cup Sources(mv.low))

\* A turn of the loop of move_to_review for a Result with detections.
CandidateStep ==
    /\ pc = "relocate"
    /\ pos' = pos + 1
    /\ pos <= Len(results)
    /\ results[pos].has_detections

\* The target path of a Result with detections whose path has a directory.
TargetPath(result) ==
    LET target_dir ==
            IF mode = "animals"
            THEN IF SingleType(result.animal_types)
                 THEN review_dir \o <<"by_animal_type", CHOOSE t \in result.animal_types : TRUE>>
                 ELSE review_dir \o <<"mixed_animals">>
            ELSE review_dir \o <<Band(MaxConfidence(result.detections)) \o "_confidence">>
    IN target_dir \o Tail(Parent(result.path)) \o <<Last(result.path)>>

\* C19 as stated: a real turn in symlink mode that finds something at the
\* target path (a file, or a link an earlier call left) and that the
\* environment does not refuse (no errors entry "mkdir" or "link") leaves
\* there one link to the source, the gallery as it was, and no errors entry.
C19_Original ==
    [][(/\ CandidateStep
        /\ ~dry_run
        /\ use_symlinks
        /\ Parent(results[pos].path) # <<>>
        /\ \E f \in review.files : f.path = TargetPath(results[pos]))
       =>
        LET r == results[pos]
            refused == /\ Len(movements'.errors) = Len(movements.errors) + 1
                       /\ Last(movements'.errors).error \in {"mkdir", "link"}
        IN \/ refused
           \/ /\ movements'.errors = movements.errors
              /\ {f \in review'.files : f.path = TargetPath(r)}
                    = {[path |-> TargetPath(r), kind |-> "link", source |-> FileOf(r.path)]}
              /\ fs' = fs]_vars

\* The report files present in the review directory.
Reports(rv) == rv.files \cap {ReportFile("review_summary.json"), ReportFile("README.txt")}

\* C18: a real call of move_to_review that returns has written
\* review_summary.json and README.txt under the output root, and returns
\* the Summary of its movements; the report files are only written after the
\* loop has passed the last Result, and never during a dry run; a dry run
\* that returns hands the caller the Summary computed from its movements.
C18_ReportFiles ==
    /\ [](pc = "returned" =>
            /\ summary = Summary(movements, mode, dry_run, use_symlinks)
            /\ summary.dry_run = dry_run
            /\ ~dry_run => Cardinality(Reports(review)) = 2)
    /\ [][Reports(review') # Reports(review) =>
            /\ ~dry_run
            /\ pc = "relocate"
            /\ pos > Len(results)
            /\ ReportFile("review_summary.json") \in review'.files]_vars
    /\ [][(pc = "relocate" /\ pc' = "returned" /\ ~dry_run) =>
            /\ pos > Len(results)
            /\ review'.files = review.files \cup
                    {ReportFile("review_summary.json"), ReportFile("README.txt")}]_vars

\* C18 witness: the first call is a real run over a Result with detections: it
\* has returned and both report files are there.
C18_Witness ==
    /\ pc = "returned"
    /\ ~dry_run
    /\ runsLeft = MaxCalls - 1
    /\ Candidates # {}
    /\ Cardinality(Reports(review)) = 2

\* C16: in a real run a turn of the loop never leaves move_to_review: when
\* the relocation of the file fails (the source is gone in move mode, the
\* directory cannot be made, the move or link is refused) one entry naming
\* the Result and the reason is appended to errors, and the loop goes on to
\* the next Result; a turn that appends no error has put the file (or a link to
\* it) in the review directory; when move_to_review returns every Result with
\* detections has been recorded.
C16_FailureRecorded ==
    /\ [][(CandidateStep /\ ~dry_run) =>
             LET r == results[pos]
                 failed == Len(movements'.errors) = Len(movements.errors) + 1
             IN /\ pc' = "relocate"
                /\ failed \/ movements'.errors = movements.errors
                /\ failed =>
                     /\ Last(movements'.errors).path = r.path
                     /\ Last(movements'.errors).error \in
                            {"IndexError", "ValueError", "mkdir", "move", "link",
                             "FileExistsError"}
                     /\ SubSeq(movements'.errors, 1, Len(movements.errors))
                            = movements.errors
                /\ (~use_symlinks /\ ~Exists(FileOf(r.path))) => failed
                /\ ~failed =>
                     \E f \in review'.files :
                        /\ f.source = FileOf(r.path)
                        /\ f.kind = IF use_symlinks THEN "link" ELSE "file"
                        /\ f \notin review.files \/ use_symlinks]_vars
    /\ [][pc' = "aborted" => (pc # "relocate" \/ pos > Len(results))]_vars
    /\ [](pc = "returned" =>
             \A i \in Candidates : results[i].path \in RecordPaths(movements))

\* C16 witness: a real run returned after two Results with detections: the
\* move of the first failed and is in errors, the second was moved after it.
C16_Witness ==
    /\ pc = "returned"
    /\ ~dry_run
    /\ Len(results) = 2
    /\ Len(movements.errors) = 1
    /\ movements.errors[1].path = results[1].path
    /\ movements.errors[1].error = "move"
    /\ \E f \in review.files : f.source = 2 /\ f.kind = "file"

AnimalLabels == {ANIMAL_CLASSES(c) : c \in LIVING_SUBJECT_CLASSES}

\* The length of a by-subject-type bucket list: "mixed", or a label.
TypeBucketLen(mv, b) ==
    IF b = "mixed" THEN Len(mv.mixed)
    ELSE IF b \in DOMAIN mv.by_type THEN Len(mv.by_type[b]) ELSE 0

\* C14: detect_animals.py records a Result with detections in the list of
\* by_type/<label> when its detections carry one distinct label and in the
\* mixed list when they carry two or more, with a target under
\* by_animal_type/<label> or mixed_animals, and in no other list; it always
\* records it there unless the turn fails before the record is made, and then
\* the failure is in errors.
C14_BySubjectType ==
    [][(CandidateStep /\ mode = "animals") =>
          LET r == results[pos]
              labels == {r.detections[i].class_name : i \in 1 .. Len(r.detections)}
              one == Cardinality(labels) = 1
              right == IF one THEN CHOOSE l \in labels : TRUE ELSE "mixed"
              dir == IF one THEN <<"by_animal_type", right>> ELSE <<"mixed_animals">>
              added(b) == TypeBucketLen(movements', b) - TypeBucketLen(movements, b)
              list == IF one THEN movements'.by_type[right] ELSE movements'.mixed
          IN /\ Cardinality(labels) >= 1
             /\ \A b \in (AnimalLabels \cup {"mixed"}) \ {right} : added(b) = 0
             /\ added(right) \in {0, 1}
             /\ added(right) = 0 => Len(movements'.errors) = Len(movements.errors) + 1
             /\ (dry_run /\ Parent(r.path) # <<>>) =>
                    (added(right) = 1 /\ movements'.errors = movements.errors)
             /\ added(right) = 1 =>
                    /\ Last(list).source = r.path
                    /\ Last(list).target = review_dir \o dir \o <<Last(r.path)>>
                    /\ Last(list).count = r.count]_vars

\* C14 witness: a call returned with one Result of two detections, a cat and
\* a dog, recorded in mixed and a Result with one label recorded under it.
C14_Witness ==
    /\ pc = "returned"
    /\ mode = "animals"
    /\ Len(movements.mixed) = 1
    /\ movements.mixed[1].types = {"cat", "dog"}
    /\ movements.mixed[1].count = 2
    /\ "cat" \in DOMAIN movements.by_type
    /\ Len(movements.by_type["cat"]) = 1

\* C15: detect_faces_simple.py records a Result with detections under the band
\* of the largest confidence m among its detections, wherever it stands in the
\* list: high when m >= 0.8, medium when 0.5 <= m < 0.8, low below, with m as
\* the record's confidence and a target under <band>_confidence; in no other
\* list; always there unless the turn fails before the record is made.
C15_ByConfidenceBand ==
    [][(CandidateStep /\ mode # "animals") =>
          LET r == results[pos]
              confs == {r.detections[i].confidence : i \in 1 .. Len(r.detections)}
              m == CHOOSE c \in confs : \A x \in confs : x <= c
              right == IF m >= 8 THEN "high" ELSE IF m < 5 THEN "low" ELSE "medium"
              added(b) == Len(movements'[b]) - Len(movements[b])
          IN /\ \A b \in {"high", "medium", "low"} \ {right} : added(b) = 0
             /\ added(right) \in {0, 1}
             /\ added(right) = 0 => Len(movements'.errors) = Len(movements.errors) + 1
             /\ (dry_run /\ Parent(r.path) # <<>>) =>
                    (added(right) = 1 /\ movements'.errors = movements.errors)
             /\ added(right) = 1 =>
                    /\ Last(movements'[right]).source = r.path
                    /\ Last(movements'[right]).confidence = m
                    /\ Last(movements'[right]).target =
                          review_dir \o <<right \o "_confidence">> \o <<Last(r.path)>>]_vars

\* C15 witness: a call returned with a Result whose detections are at 0.6 and
\* then 0.8 recorded as high at 0.8, and one at 0.5 recorded as medium.
C15_Witness ==
    /\ pc = "returned"
    /\ mode = "person"
    /\ Len(movements.high) = 1
    /\ movements.high[1].confidence = 8
    /\ movements.high[1].detections = 2
    /\ Len(movements.medium) = 1
    /\ movements.medium[1].confidence = 5

\* The step is the start of a run that was asked to clear the cache it uses.
ClearingStart == runsLeft' = runsLeft - 1 /\ clear_cache' /\ use_cache'

\* C20: a run asked to clear its cache starts its scan with a cache that holds
\* no entry and with no lookup made; while a key has no entry, get of a file
\* with that key returns absent and counts a miss, and an entry only appears
\* by the set of a detect for a file with that key; the scan of the run
\* that cleared has zero hits and no file of it is looked up as a hit.
C20_ClearedCache ==
    /\ [][ClearingStart =>
            /\ cache' = [k \in Keys |-> NoEntry]
            /\ stats' = ZeroStats
            /\ \A p \in Paths : lookup'[p] = "none"]_vars
    /\ [](\A p \in Paths :
            (Exists(p) /\ cache[FileHash(p)] = NoEntry) =>
                /\ CacheGet(p).ret = None
                /\ CacheGet(p).stats = [stats EXCEPT !.misses = @ + 1])
    /\ [][\A k \in Keys :
            (cache[k] = NoEntry /\ cache'[k] # NoEntry) =>
                \E p \in Paths : ProcessStep(p) /\ FileHash(p) = k /\ use_cache]_vars
    /\ []((clear_cache /\ use_cache) =>
            /\ stats.hits = 0
            /\ \A p \in Paths : lookup[p] # "hit")

\* C20 witness: the second run was asked to clear the cache; it has looked
\* every file up and detected it anew: as many misses as files, no hit.
C20_Witness ==
    /\ pc = "done"
    /\ clear_cache /\ use_cache
    /\ runsLeft = MaxRuns - 2
    /\ stats.misses = NumFiles
    /\ stats.hits = 0
    /\ \A p \in Paths : invocations[p] = 1

\* The image files of the gallery: what the two patterns of an extension find.
ImageFiles == {p \in Paths : Exists(p) /\ Ext(p) \in {".jpg", ".jpeg", ".png", ".JPG", ".JPEG", ".PNG"}}

\* How many Results of the list name file p.
ResultsFor(rs, p) == Cardinality({i \in 1 .. Len(rs) : rs[i].path = PathStr(p)})

\* The directories of the run that are there.
RootsThere == {j \in 1 .. Len(directories) : directories[j] = "."}

\* C21: a directory of the run that does not exist is passed over in one step
\* that changes no Result and ends nothing; main is never left by an
\* exception of the loop; once the loop is over all_results holds for every
\* image file one Result per scan of a directory that is there, also with
\* missing directories before or after it, and move_to_review is called with
\* that list.
C21_MissingRootSkipped ==
    /\ [][(pc = "scan" /\ root <= Len(directories) /\ directories[root] = "gone") =>
            /\ pc' = "scan"
            /\ root' = root + 1
            /\ all_results' = all_results
            /\ directories' = directories]_vars
    /\ [](pc # "crashed")
    /\ []((pc \in {"review", "exit"} /\ directories # <<>>) =>
            /\ root = Len(directories) + 1
            /\ Len(all_results) = Cardinality(ImageFiles) * Cardinality(RootsThere)
            /\ \A p \in ImageFiles : ResultsFor(all_results, p) = Cardinality(RootsThere))
    /\ [](pc = "review" => results = all_results)

\* C21 witness: the first directory of the run is missing, the second is there:
\* the Results of its two files are handed to move_to_review.
C21_Witness ==
    /\ pc = "review"
    /\ directories = <<"gone", ".">>
    /\ Len(results) = NumFiles
    /\ \A p \in Paths : ResultsFor(results, p) = 1

\* The positions of move_to_review.
Relocating == pc \in {"review", "relocate", "returned", "aborted"}

\* C22: a run whose gallery is not there or whose detector cannot be built,
\* and a run none of whose directories is there, ends with the review directory
\* untouched and no summary; before move_to_review is called no step changes
\* the review directory, the gallery or the summary; move_to_review is called
\* from the end of the loop over the directories only, so while it runs every
\* directory has been passed.
C22_NoEarlyRelocation ==
    /\ []((pc = "exit" /\ RootsThere = {}) =>
            /\ review = EmptyReview
            /\ summary = None
            /\ movements = None
            /\ all_results = <<>>)
    /\ [](RootsThere = {} => ~Relocating)
    /\ [][~Relocating =>
            /\ review' = review
            /\ fs' = fs
            /\ summary' = summary
            /\ movements' = movements]_vars
    /\ [][(~Relocating /\ Relocating') =>
            /\ pc = "scan"
            /\ root = Len(directories) + 1
            /\ pc' = "review"]_vars
    /\ [](Relocating => root = Len(directories) + 1)

\* C22 witness: the gallery holds image files and the detector could not be
\* built: main has ended, nothing was scanned, the review directory is empty.
C22_Witness ==
    /\ pc = "exit"
    /\ directories = <<>>
    /\ ImageFiles # {}
    /\ review = EmptyReview
    /\ stats = ZeroStats

\* ext.lower() of the extensions the gallery holds.
Lower(ext) ==
    CASE ext \in {".jpg", ".JPG", ".Jpg"} -> ".jpg"
      [] ext \in {".png", ".PNG"} -> ".png"
      [] OTHER -> ext

\* C23 as stated: the files scan_directory has collected are the existing
\* files, at any depth, whose extension in lower case is an allowed one.
C23_Original ==
    pc # "scan" =>
        SeqToSet(image_files) =
            {p \in DOMAIN fs : Exists(p) /\ Lower(Ext(p)) \in SeqToSet(extensions)}

\* C24 as stated: when the model does not return for one file of the list
\* being detected, every other file of that list eventually has its Result.
C24_Original ==
    (pc = "hung") ~>
        (\A i \in 1 .. Len(WorkList) :
            i # pos => \E j \in 1 .. Len(results) : results[j].path = PathStr(WorkList[i]))

\* C25 as stated: a turn of the detection loop never writes the cache at a
\* key that holds a Result: every Result stored keeps its content, also after
\* a lookup counted invalid.
C25_Original ==
    [][\A p \in Paths :
         ProcessStep(p) =>
            \A k \in Keys : IsResult(cache[k]) => cache'[k] = cache[k]]_vars

\* C26 as stated: the list main hands to move_to_review holds at most one
\* Result per source path, whatever directories the run names.
C26_Original ==
    pc = "review" => \A p \in Paths : ResultsFor(results, p) <= 1

\* C27 as stated: over a shared cache directory no lookup returns a Result
\* that was stored for another file.
C27_Original ==
    \A i \in 1 .. Len(results) :
        results[i].ret # None => results[i].ret.picture = results[i].file

\* C28 as stated: no Result of the current scan holds a detection with a
\* confidence below the threshold of the current run.
C28_Original ==
    \A i \in 1 .. Len(results) :
        "detections" \in DOMAIN results[i] =>
            \A j \in 1 .. Len(results[i].detections) :
                results[i].detections[j].confidence >= confidence_threshold

\* The step is a turn of the detection loop that appends a Result with error
\* for file p.
FailedStep(p) ==
    /\ ProcessStep(p)
    /\ Len(results') = Len(results) + 1
    /\ IsError(Last(results'))

\* C29 as stated: after a detect that fails for a file that is still there,
\* the cache holds no entry get would return for it.
C29_Original ==
    [][\A p \in Paths : (FailedStep(p) /\ Exists(p)) => (CacheGet(p).ret)' = None]_vars

\* C29: no entry of the cache holds a Result with error and a detect that
\* fails leaves the cache directory as it was; in a run that uses the cache
\* detect only runs for a file whose lookup returned None, so after it fails
\* the key of the file, if the file is still there, holds no Result of that
\* file, and get returns None again: the next scan calls detect for it.
C29_ErrorNotCached ==
    /\ [](\A k \in Keys : IsResult(cache[k]) => ~IsError(cache[k]))
    /\ [][\A p \in Paths :
            FailedStep(p) =>
                /\ cache' = cache
                /\ Last(results').path = PathStr(p)
                /\ (use_cache /\ Exists(p)) =>
                     /\ ~IsResult(cache'[FileHash(p)]) \/ cache'[FileHash(p)].path # PathStr(p)
                     /\ (CacheGet(p).ret)' = None]_vars

\* C29 witness: the model failed on file 1 in two scans that used the cache
\* without clearing it: the second scan called it again, the Result carries
\* the error and the key of the file has no entry.
C29_Witness ==
    /\ pc = "done"
    /\ use_cache
    /\ runsLeft = MaxRuns - 2
    /\ Exists(1)
    /\ invocations[1] = 2
    /\ \E i \in 1 .. Len(results) : results[i].path = PathStr(1) /\ IsError(results[i])
    /\ cache[FileHash(1)] = NoEntry

\* The records of the bucket lists of a call.
BucketRecords(mv) ==
    LET Of(l) == {l[i] : i \in 1 .. Len(l)}
    IN IF mode = "animals"
       THEN Of(mv.mixed) \cup UNION {Of(mv.by_type[t]) : t \in DOMAIN mv.by_type}
       ELSE Of(mv.high) \cup Of(mv.medium) \cup Of(mv.low)

\* The records of files the call moved: those with no errors entry.
MovedRecords(mv) ==
    {r \in BucketRecords(mv) : \A i \in 1 .. Len(mv.errors) : mv.errors[i].path # r.source}

\* C30 as stated: when the first real move run into an empty review directory
\* returns, every file recorded as moved is at its recorded target, and the
\* files under the bucket directories are as many as the moved records.
C30_Original ==
    (pc = "returned" /\ ~dry_run /\ ~use_symlinks /\ runsLeft = MaxCalls - 1) =>
        /\ \A r \in MovedRecords(movements) :
              \E f \in review.files :
                 f.path = r.target /\ f.kind = "file" /\ f.source = FileOf(r.source)
        /\ Cardinality({f \in review.files : f.source # 0})
              = Cardinality(MovedRecords(movements))

\* C6 as stated: with the cache in use, the model is called at most once for a
\* file while its mtime and size stay the same (and nobody clears the cache or
\* damages the file's entry).
C6_Original == \A p \in Paths : invocations[p] <= 1

\* C6 amended: with the cache in use, the model is called for a file only when
\* the lookup of that file in the same scan returned None, never for a file
\* answered from the cache; and it is not called again for a file whose Result
\* was stored by set, as long as the file keeps its mtime and size and the
\* entry is neither cleared nor damaged. (A failed detection or a failed write
\* stores nothing, and the next scan calls the model again.)
C6_OnlyAfterAbsent ==
    /\ [](\A p \in Paths :
            lookup[p] = "hit" => p \notin SeqToSet(files_to_process))
    /\ [][\A p \in Paths :
            (invocations'[p] = invocations[p] + 1) =>
                /\ lookup'[p] = "absent"
                /\ stored[p] = None]_vars

\* C6 witness: a second scan answered a stored file from the cache, the model
\* having been called once for it.
C6_Witness ==
    \E p \in Paths :
        /\ runsLeft = MaxRuns - 2
        /\ lookup[p] = "hit"
        /\ invocations[p] = 1
        /\ stored[p] # None

\* The steps of a call of move_to_review made with dry_run (the step that
\* enters the call sets the flag).
DryStep == dry_run' /\ <<pc, pos, runsLeft>>' # <<pc, pos, runsLeft>>

\* C3: no step of a call of move_to_review with dry_run changes the review
\* directory (directories, moved files, links, review_summary.json,
\* README.txt) or the gallery, whatever the Results; after a first call that
\* was a dry run nothing exists under the review directory.
C3_DryRunFrame ==
    /\ [][DryStep => (review' = review /\ fs' = fs)]_vars
    /\ []((runsLeft = MaxCalls - 1 /\ dry_run) => review = EmptyReview)

\* C3 witness: a first call, a dry run, returned with two candidates in its
\* summary and the review directory still empty.
C3_Witness ==
    /\ pc = "returned"
    /\ \A p \in Paths : Exists(p)
    /\ runsLeft = MaxCalls - 1
    /\ dry_run
    /\ summary.total_candidates = 2
    /\ review = EmptyReview

RECURSIVE SumLen(_, _)
SumLen(f, S) ==
    IF S = {} THEN 0
    ELSE LET x == CHOOSE y \in S : TRUE IN Len(f[x]) + SumLen(f, S \ {x})

\* The records of a call: the entries of the bucket lists and of errors.
Records(mv) ==
    IF mode = "animals"
    THEN SumLen(mv.by_type, DOMAIN mv.by_type) + Len(mv.mixed) + Len(mv.errors)
    ELSE Len(mv.high) + Len(mv.medium) + Len(mv.low) + Len(mv.errors)

\* How many records of a call (bucket entries and errors entries) name `path`.
Occurrences(mv, path) ==
    LET In(l) == Cardinality({k \in 1 .. Len(l) : l[k].source = path})
        Slots == UNION {{<<t, k>> : k \in 1 .. Len(mv.by_type[t])} : t \in DOMAIN mv.by_type}
    IN Cardinality({k \in 1 .. Len(mv.errors) : mv.errors[k].path = path}) +
       (IF mode = "animals"
        THEN In(mv.mixed) +
             Cardinality({x \in Slots : mv.by_type[x[1]][x[2]].source = path})
        ELSE In(mv.high) + In(mv.medium) + In(mv.low))

\* C17 as stated: during and after a call of move_to_review every Result with
\* detections the loop has passed is recorded in exactly one place: the
\* records naming its path (in the bucket lists and in errors) are as many as
\* the passed Results with that path.
C17_Original ==
    pc \in {"relocate", "returned"} =>
        \A i \in Candidates :
            i < pos =>
                Occurrences(movements, results[i].path)
                    = Cardinality({j \in Candidates :
                                     j < pos /\ results[j].path = results[i].path})

\* C4 as stated: when move_to_review returns, its records (the entries of the
\* bucket lists and of the errors list) are as many as the Results with
\* detections, and each names a Result with detections.
C4_Original ==
    pc = "returned" =>
        /\ Records(movements) = Cardinality(Candidates)
        /\ RecordPaths(movements) \subseteq {results[i].path : i \in Candidates}

\* C5 as stated: the candidate counts of a real run (total and per bucket)
\* equal those of a dry run over the same Results.
C5_Original ==
    (pc = "returned" /\ ~dry_run /\ dryCounts # None) => Counts(summary) = dryCounts

\* The class identifiers each detector is configured to keep: the ten animal
\* classes, the person class, and (face model) every class of the model.
Allowed(md) ==
    IF md = "animals" THEN 14 .. 23
    ELSE IF md = "person" THEN {0}
    ELSE {b.class : b \in BoxSamples}

Passes(b) == b.confidence >= confidence_threshold /\ b.class \in Allowed(mode)

\* C7: the detections of the Result built by detect are the raw boxes whose
\* confidence is at least the threshold and whose class is allowed, each once,
\* in the order of the model, and count is their number.
C7_FilterExact ==
    pc = "done" =>
        LET r == results[1]
            kept == SelectSeq(raw, Passes)
        IN /\ ~IsError(r)
           /\ r.count = Len(kept)
           /\ Len(r.detections) = Len(kept)
           /\ \A i \in 1 .. Len(kept) :
                 /\ r.detections[i].confidence = kept[i].confidence
                 /\ r.detections[i].class = kept[i].class

\* C7 witness: of two boxes returned, the one whose confidence equals the
\* threshold is kept and the other is dropped.
C7_Witness ==
    /\ pc = "done"
    /\ Len(raw) = 2
    /\ results[1].count = 1
    /\ results[1].detections[1].confidence = confidence_threshold
    /\ raw[1].confidence < confidence_threshold

WellFormed(r) ==
    /\ r.count = Len(DictGet(r, "detections", <<>>))
    /\ r.has_detections = (r.count > 0)
    /\ IsError(r) =>
        /\ DictGet(r, "detections", <<>>) = <<>>
        /\ r.count = 0
        /\ ~r.has_detections

\* C8: every Result returned by scan_directory (computed by detect or read from
\* the cache) and every Result stored in the cache has count = len(detections)
\* and has_detections = (count > 0); one with error set has no detections,
\* count 0 and has_detections false.
C8_ResultInvariant ==
    /\ \A i \in 1 .. Len(results) : WellFormed(results[i])
    /\ \A k \in Keys : IsResult(cache[k]) => WellFormed(cache[k])

\* C8 witness: one scan returned a Result with error set and a Result with two
\* detections.
C8_Witness ==
    \E i, j \in 1 .. Len(results) :
        /\ IsError(results[i])
        /\ results[j].count = 2
        /\ results[j].has_detections

\* C9: no exception leaves detect or the scan; a file that is gone when detect
\* reaches it (no metadata, no image) gets a Result with error set and the
\* scan goes on; a finished scan returns exactly one Result per enumerated
\* file.
C9_NeverRaises ==
    /\ [](pc # "crashed")
    /\ [](pc = "done" =>
            \A p \in Paths :
                Cardinality({i \in 1 .. Len(results) : results[i].path = PathStr(p)})
                    = Cardinality({n \in 1 .. Len(image_files) : image_files[n] = p}))
    /\ [][\A p \in Paths :
            (ProcessStep(p) /\ ~Exists(p)) =>
                /\ Detected(p) \/ ~use_cache
                /\ Len(results') = Len(results) + 1
                /\ IsError(Last(results'))
                /\ Last(results').path = PathStr(p)
                /\ pc' \in {"process", "done"}]_vars

\* C9 witness: a finished scan of two files whose first Result carries an
\* error and whose second does not.
C9_Witness ==
    /\ pc = "done"
    /\ Len(image_files) = 2
    /\ Len(results) = 2
    /\ IsError(results[1])
    /\ ~IsError(results[2])

\* C10: when the read of an entry fails (the entry does not unpickle, or the
\* file is gone and has no metadata to key it), get returns None without
\* raising and adds one to invalid only, and the scan runs detect for the file.
C10_CorruptEntry ==
    [][\A p \in Paths :
          (/\ LookupStep(p)
           /\ IF Exists(p) THEN cache[<<PathStr(p), fs[p].mtime, fs[p].size>>] = Corrupt
              ELSE TRUE) =>
              /\ stats' = [stats EXCEPT !.invalid = @ + 1]
              /\ lookup'[p] = "absent"
              /\ pc' # "crashed"
              /\ Tool = "animals" => Queued(p)
              /\ Tool = "faces" => Detected(p)]_vars

\* C10 witness: a scan of two existing files ended with one invalid lookup,
\* one miss and two Results without error.
C10_Witness ==
    /\ pc = "done"
    /\ \A p \in Paths : Exists(p)
    /\ stats = [hits |-> 0, misses |-> 1, invalid |-> 1]
    /\ Len(results) = 2
    /\ \A i \in 1 .. 2 : ~IsError(results[i])

====
